---- MODULE Spec2Model ----
(***************************************************************************)
(* Model of rlkit's risk-conditioned SAC trainer                           *)
(* (rlkit/torch/sac/risk_conditioned_sac.py) and of the policy roll-out    *)
(* script (scripts/run_policy.py).                                         *)
(*                                                                         *)
(* Tensors are abstracted symbolically:                                    *)
(*  - the parameters of a trained network are the number of optimizer      *)
(*    steps applied to them (0 = parameters at construction);              *)
(*  - the parameters of a target network are the sequence of soft updates  *)
(*    blended into them (<<>> = parameters at construction);               *)
(*  - a loss is a record of the parameters it was computed from.           *)
(* Floating point literals are scaled: soft_target_tau in units of 1e-2,   *)
(* risk bounds in units of 0.1.                                            *)
(***************************************************************************)
EXTENDS Integers, Sequences, FiniteSets, TLC

\* ---------------------------------------------------------------- bounds
MaxTrainSteps == 6
MaxPeriod == 3
NumBatches == 2
MaxRiskBounds == 3
MaxTime == 2

Batches == 1..NumBatches
RiskBoundValues == {1, 2, 3}

\* ----------------------------------------------------- program constants
soft_target_tau == 1
ExtraPathsRiskBound == 1
StartPathsRiskBound == 3
start_locations == << <<4, 4>>, <<15, 10>>, <<17, 17>>, <<16, 5>> >>
FinalStartState == <<4, 4>>

VARIABLES
    \* RiskConditionedSACTrainer
    use_automatic_entropy_tuning,
    target_update_period,
    attrs,
    log_alpha,
    policy, qf1, qf2, rf1, rf2,
    target_qf1, target_qf2, target_rf1, target_rf2,
    n_train_steps_total,
    need_to_update_eval_statistics,
    eval_statistics,
    batch,
    losses,
    stats,
    oplog,
    error,
    diagnostics,
    \* simulate_policy
    sim_pc,
    risk_bounds,
    idx,
    paths,
    times,
    paths_s,
    env_start,
    plotted

trainerVars == << use_automatic_entropy_tuning, target_update_period, attrs,
                  log_alpha, policy, qf1, qf2, rf1, rf2,
                  target_qf1, target_qf2, target_rf1, target_rf2,
                  n_train_steps_total, need_to_update_eval_statistics,
                  eval_statistics, batch, losses, stats, oplog, error,
                  diagnostics >>

simVars == << sim_pc, risk_bounds, idx, paths, times, paths_s, env_start,
              plotted >>

vars == << trainerVars, simVars >>

\* ------------------------------------------------------------- helpers
\* An OrderedDict is a function from keys to values; OrderedDict() is empty.
EmptyDict == [k \in {} |-> 0]

\* dict.update(other): entries of other override those of d.
DictUpdate(d, other) ==
    [k \in (DOMAIN d) \cup (DOMAIN other) |->
        IF k \in DOMAIN other THEN other[k] ELSE d[k]]

NoLosses == [called |-> FALSE]


\* ----------------------------------------------------------------------
\* RiskConditionedSACTrainer
\* ----------------------------------------------------------------------

\* __init__: the attributes created only when entropy tuning is automatic.
OptionalAttrs(auto) ==
    IF auto THEN {"target_entropy", "log_alpha", "alpha_optimizer"} ELSE {}

\* The parameters of a trained network after one optimizer.step().
OptimizerStep(params) == params + 1

\* ptu.soft_update_from_to(source, target, tau): blend source into target.
SoftUpdateFromTo(source, target, tau) ==
    Append(target, [from |-> source, tau |-> tau])

\* The keys compute_loss stores when statistics are not skipped.
StatKeys(auto) ==
    {"QF1 Loss", "QF2 Loss", "RF1 Loss", "RF2 Loss", "Policy Loss",
     "Q1 Predictions", "Q2 Predictions", "Q Targets",
     "R1 Predictions", "R2 Predictions", "R Targets",
     "Collisions", "Log Pis", "policy/"}
    \cup (IF auto THEN {"Alpha", "Alpha Loss"} ELSE {})

\* compute_loss(batch, skip_statistics) -> (SACLosses, statistics)
ComputeLoss(b, skip_statistics) ==
    LET auto == use_automatic_entropy_tuning
        alpha == IF auto THEN [kind |-> "exp", arg |-> log_alpha]
                         ELSE [kind |-> "const", arg |-> 1]
        alpha_loss == IF auto THEN [kind |-> "tensor", arg |-> log_alpha]
                              ELSE [kind |-> "int", arg |-> 0]
        q_targets == << target_qf1, target_qf2 >>
        r_targets == << target_rf1, target_rf2 >>
        eval_stats == IF skip_statistics
                 THEN EmptyDict
                 ELSE [k \in StatKeys(auto) |->
                          [batch |-> b, step |-> n_train_steps_total]]
    IN [losses |->
           [called      |-> TRUE,
            policy_loss |-> [alpha |-> alpha, policy |-> policy,
                             critics |-> << qf1, qf2, rf1, rf2 >>],
            qf1_loss    |-> [pred |-> qf1, targets |-> q_targets, alpha |-> alpha],
            qf2_loss    |-> [pred |-> qf2, targets |-> q_targets, alpha |-> alpha],
            alpha_loss  |-> alpha_loss,
            rf1_loss    |-> [pred |-> rf1, targets |-> r_targets, alpha |-> alpha],
            rf2_loss    |-> [pred |-> rf2, targets |-> r_targets, alpha |-> alpha]],
        stats |-> eval_stats]

\* One block of train_from_torch: zero_grad, backward of the own loss, step.
\* (loss names the SACLosses field whose backward() is called.)
OptimizerBlock(name, loss) ==
    << [opt |-> name, op |-> "zero_grad", loss |-> "-"],
       [opt |-> name, op |-> "backward", loss |-> loss],
       [opt |-> name, op |-> "step", loss |-> "-"] >>

\* The guard of the alpha block of train_from_torch.
AlphaUpdateAttemptedSkipGuard == TRUE
AlphaUpdateAttempted == use_automatic_entropy_tuning

\* The network optimizers train_from_torch steps, in program order.
\* Each entry pairs the optimizer with the loss it backpropagates.
OptimizerOrderSwapped ==
    << << "qf1", "qf1_loss" >>, << "policy", "policy_loss" >>,
       << "qf2", "qf2_loss" >>, << "rf1", "rf1_loss" >>,
       << "rf2", "rf2_loss" >> >>
OptimizerOrder ==
    << << "policy", "policy_loss" >>, << "qf1", "qf1_loss" >>,
       << "qf2", "qf2_loss" >>, << "rf1", "rf1_loss" >>,
       << "rf2", "rf2_loss" >> >>

RECURSIVE Blocks(_)
Blocks(order) ==
    IF order = << >> THEN << >>
    ELSE OptimizerBlock(Head(order)[1], Head(order)[2]) \o Blocks(Tail(order))

\* Number of step() calls the blocks apply to the optimizer called name.
StepsOf(name, order) == Cardinality({i \in DOMAIN order : order[i][1] = name})

RECURSIVE Stepped(_, _)
Stepped(params, k) == IF k = 0 THEN params ELSE Stepped(OptimizerStep(params), k - 1)

\* try_update_target_networks: the condition on the incremented counter.
ShouldUpdateTargetsBeforeIncrement(n) == (n - 1) % target_update_period = 0
ShouldUpdateTargets(n) == n % target_update_period = 0

\* update_target_networks: the targets after the soft updates, given the
\* critics as they are after this call's optimizer steps.
UpdateTargetNetworks(q1, q2, r1, r2) ==
    [target_qf1 |-> SoftUpdateFromTo(q1, target_qf1, soft_target_tau),
     target_qf2 |-> SoftUpdateFromTo(q2, target_qf2, soft_target_tau),
     target_rf1 |-> target_rf1,
     target_rf2 |-> target_rf2]

TargetsUnchanged ==
    [target_qf1 |-> target_qf1, target_qf2 |-> target_qf2,
     target_rf1 |-> target_rf1, target_rf2 |-> target_rf2]

\* Lines 154-157: the statistics kept after a call that computed stats.
NewEvalStatisticsAlways(new_stats) == new_stats
NewEvalStatistics(new_stats) ==
    IF need_to_update_eval_statistics THEN new_stats ELSE eval_statistics

TrainFromTorch(b) ==
    /\ n_train_steps_total < MaxTrainSteps
    /\ LET out == ComputeLoss(b, ~need_to_update_eval_statistics)
           alpha_ok == /\ "alpha_optimizer" \in attrs
                       /\ out.losses.alpha_loss.kind = "tensor"
       IN IF AlphaUpdateAttempted /\ ~alpha_ok
          THEN \* AttributeError leaves train_from_torch before any update
               /\ error' = "AttributeError"
               /\ batch' = b
               /\ losses' = out.losses
               /\ stats' = out.stats
               /\ oplog' = << >>
               /\ UNCHANGED << log_alpha, policy, qf1, qf2, rf1, rf2,
                               target_qf1, target_qf2, target_rf1, target_rf2,
                               n_train_steps_total,
                               need_to_update_eval_statistics, eval_statistics >>
          ELSE LET n   == n_train_steps_total + 1
                   q1  == Stepped(qf1, StepsOf("qf1", OptimizerOrder))
                   q2  == Stepped(qf2, StepsOf("qf2", OptimizerOrder))
                   r1  == Stepped(rf1, StepsOf("rf1", OptimizerOrder))
                   r2  == Stepped(rf2, StepsOf("rf2", OptimizerOrder))
                   upd == ShouldUpdateTargets(n)
                   tg  == IF upd THEN UpdateTargetNetworks(q1, q2, r1, r2)
                                 ELSE TargetsUnchanged
               IN /\ error' = "none"
                  /\ batch' = b
                  /\ losses' = out.losses
                  /\ stats' = out.stats
                  /\ log_alpha' = IF AlphaUpdateAttempted
                                  THEN OptimizerStep(log_alpha) ELSE log_alpha
                  /\ policy' = Stepped(policy, StepsOf("policy", OptimizerOrder))
                  /\ qf1' = q1
                  /\ qf2' = q2
                  /\ rf1' = r1
                  /\ rf2' = r2
                  /\ n_train_steps_total' = n
                  /\ target_qf1' = tg.target_qf1
                  /\ target_qf2' = tg.target_qf2
                  /\ target_rf1' = tg.target_rf1
                  /\ target_rf2' = tg.target_rf2
                  /\ oplog' =
                        (IF AlphaUpdateAttempted
                            THEN OptimizerBlock("alpha", "alpha_loss")
                            ELSE << >>)
                        \o Blocks(OptimizerOrder)
                        \o << [opt |-> "counter", op |-> "increment", loss |-> "-"] >>
                        \o (IF upd
                            THEN << [opt |-> "targets", op |-> "soft_update",
                                     loss |-> "-"] >>
                            ELSE << >>)
                  /\ eval_statistics' = NewEvalStatistics(out.stats)
                  /\ need_to_update_eval_statistics' = FALSE
    /\ UNCHANGED << use_automatic_entropy_tuning, target_update_period, attrs,
                    diagnostics >>
    /\ UNCHANGED simVars

\* end_epoch(epoch)
EndEpoch ==
    /\ need_to_update_eval_statistics' = TRUE
    /\ UNCHANGED << use_automatic_entropy_tuning, target_update_period, attrs,
                    log_alpha, policy, qf1, qf2, rf1, rf2,
                    target_qf1, target_qf2, target_rf1, target_rf2,
                    n_train_steps_total, eval_statistics, batch, losses,
                    stats, oplog, error, diagnostics >>
    /\ UNCHANGED simVars

\* get_diagnostics(): the diagnostics of the superclass (TorchTrainer
\* reports its count of train calls) updated with eval_statistics.
GetDiagnostics ==
    /\ diagnostics' =
          DictUpdate([k \in {"num train calls"} |->
                         [batch |-> 0, step |-> n_train_steps_total]],
                     eval_statistics)
    /\ UNCHANGED << use_automatic_entropy_tuning, target_update_period, attrs,
                    log_alpha, policy, qf1, qf2, rf1, rf2,
                    target_qf1, target_qf2, target_rf1, target_rf2,
                    n_train_steps_total, need_to_update_eval_statistics,
                    eval_statistics, batch, losses, stats, oplog, error >>
    /\ UNCHANGED simVars

\* The trainer right after __init__ with the given arguments.
TrainerInit(auto, period) ==
    /\ use_automatic_entropy_tuning = auto
    /\ target_update_period = period
    /\ attrs = OptionalAttrs(auto)
    /\ log_alpha = 0
    /\ policy = 0 /\ qf1 = 0 /\ qf2 = 0 /\ rf1 = 0 /\ rf2 = 0
    /\ target_qf1 = << >> /\ target_qf2 = << >>
    /\ target_rf1 = << >> /\ target_rf2 = << >>
    /\ n_train_steps_total = 0
    /\ need_to_update_eval_statistics = TRUE
    /\ eval_statistics = EmptyDict
    /\ batch = 0
    /\ losses = NoLosses
    /\ stats = EmptyDict
    /\ oplog = << >>
    /\ error = "none"
    /\ diagnostics = EmptyDict

\* simulate_policy before it is entered, with the default --risk-bounds.
SimParked ==
    /\ sim_pc = "entry"
    /\ risk_bounds = << 1, 2, 3 >>
    /\ idx = 1
    /\ paths = << >>
    /\ times = << >>
    /\ paths_s = << >>
    /\ env_start = << 4, 4 >>
    /\ plotted = << >>

\* ----------------------------------------------------------------------
\* scripts/run_policy.py: simulate_policy
\* ----------------------------------------------------------------------

\* rollout(env, policy, ..., risk_bound=rb, test_mode=True): the path
\* obtained, identified by the risk bound and the start state it ran from.
Rollout(rb, start) == [risk_bound |-> rb, start |-> start]

\* Lines 17-29: load the snapshot, read args.risk_bounds, empty the lists.
SimEnter ==
    /\ sim_pc = "entry"
    /\ sim_pc' = "risk_loop"
    /\ paths' = << >>
    /\ times' = << >>
    /\ idx' = 1
    /\ UNCHANGED << risk_bounds, paths_s, env_start, plotted >>
    /\ UNCHANGED trainerVars

\* Lines 30-46: one iteration of the loop over the risk bounds.
RiskLoopStep ==
    /\ sim_pc = "risk_loop"
    /\ idx <= Len(risk_bounds)
    /\ \E time_diff \in 1..MaxTime :
          times' = Append(times, time_diff)
    /\ paths' = Append(paths, Rollout(risk_bounds[idx], env_start))
    /\ idx' = idx + 1
    /\ UNCHANGED << sim_pc, risk_bounds, paths_s, env_start, plotted >>
    /\ UNCHANGED trainerVars

\* Lines 48-50: the risk bounds are exhausted; paths_s = [].
RiskLoopExit ==
    /\ sim_pc = "risk_loop"
    /\ idx > Len(risk_bounds)
    /\ sim_pc' = "extra_loop"
    /\ paths_s' = << >>
    /\ idx' = 1
    /\ UNCHANGED << risk_bounds, paths, times, env_start, plotted >>
    /\ UNCHANGED trainerVars

\* Lines 51-61: one iteration of the first loop over start_locations.
ExtraLoopStep ==
    /\ sim_pc = "extra_loop"
    /\ idx <= Len(start_locations)
    /\ env_start' = start_locations[idx]
    /\ paths_s' = Append(paths_s,
                         Rollout(ExtraPathsRiskBound, start_locations[idx]))
    /\ idx' = idx + 1
    /\ UNCHANGED << sim_pc, risk_bounds, paths, times, plotted >>
    /\ UNCHANGED trainerVars

\* Lines 63-64: start_locations are exhausted; paths = [].
ExtraLoopExit ==
    /\ sim_pc = "extra_loop"
    /\ idx > Len(start_locations)
    /\ sim_pc' = "start_loop"
    /\ paths' = << >>
    /\ idx' = 1
    /\ UNCHANGED << risk_bounds, times, paths_s, env_start, plotted >>
    /\ UNCHANGED trainerVars

\* Lines 65-75: one iteration of the second loop over start_locations.
StartLoopStep ==
    /\ sim_pc = "start_loop"
    /\ idx <= Len(start_locations)
    /\ env_start' = start_locations[idx]
    /\ paths' = Append(paths,
                       Rollout(StartPathsRiskBound, start_locations[idx]))
    /\ idx' = idx + 1
    /\ UNCHANGED << sim_pc, risk_bounds, times, paths_s, plotted >>
    /\ UNCHANGED trainerVars

\* Lines 76-79: reset the start state and call plot_problem_paths.
PlotProblemPaths ==
    /\ sim_pc = "start_loop"
    /\ idx > Len(start_locations)
    /\ env_start' = FinalStartState
    /\ plotted' = Append(plotted,
                         [paths |-> paths, risk_bounds |-> risk_bounds,
                          times |-> times, extra_paths |-> paths_s])
    /\ sim_pc' = "done"
    /\ UNCHANGED << risk_bounds, idx, paths, times, paths_s >>
    /\ UNCHANGED trainerVars

\* --risk-bounds: nargs='+' of floats, so a non-empty list.
RiskBoundArgs ==
    UNION {[1..n -> RiskBoundValues] : n \in 1..MaxRiskBounds}

InitSim ==
    /\ TrainerInit(TRUE, 1)
    /\ sim_pc = "entry"
    /\ risk_bounds \in RiskBoundArgs
    /\ idx = 1
    /\ paths = << >>
    /\ times = << >>
    /\ paths_s = << >>
    /\ env_start \in {start_locations[i] : i \in DOMAIN start_locations}
    /\ plotted = << >>

NextSim ==
    \/ SimEnter
    \/ RiskLoopStep
    \/ RiskLoopExit
    \/ ExtraLoopStep
    \/ ExtraLoopExit
    \/ StartLoopStep
    \/ PlotProblemPaths

SpecSim == InitSim /\ [][NextSim]_vars

\* ----------------------------------------------------------------------
\* The trainer as a state machine
\* ----------------------------------------------------------------------

Init ==
    /\ \E auto \in BOOLEAN, period \in 1..MaxPeriod : TrainerInit(auto, period)
    /\ SimParked

Next ==
    \/ \E b \in Batches : TrainFromTorch(b)
    \/ EndEpoch
    \/ GetDiagnostics

Spec == Init /\ [][Next]_vars


\* ----------------------------------------------------------------------
\* Properties
\* ----------------------------------------------------------------------

IsNetworkOp(e) == e.opt \in {"policy", "qf1", "qf2", "rf1", "rf2"}
IsAlphaOp(e) == e.opt = "alpha"
IsStepOp(e) == e.op = "step"

\* The call that produced the current state updated the targets.
UpdateRan ==
    /\ oplog # << >>
    /\ oplog[Len(oplog)] =
          [opt |-> "targets", op |-> "soft_update", loss |-> "-"]

\* C1: whenever a train_from_torch call triggers a target update, every
\* one of the four target networks is soft-updated from its critic with
\* soft_target_tau, so none stays at its initial parameters while its
\* critic has changed.
C1_AllTargetsSoftUpdated ==
    UpdateRan =>
        /\ target_qf1 # << >>
        /\ target_qf1[Len(target_qf1)] = [from |-> qf1, tau |-> soft_target_tau]
        /\ target_qf2 # << >>
        /\ target_qf2[Len(target_qf2)] = [from |-> qf2, tau |-> soft_target_tau]
        /\ target_rf1 # << >>
        /\ target_rf1[Len(target_rf1)] = [from |-> rf1, tau |-> soft_target_tau]
        /\ target_rf2 # << >>
        /\ target_rf2[Len(target_rf2)] = [from |-> rf2, tau |-> soft_target_tau]

\* A target update ran, the Q targets follow their critics, and the risk
\* targets are still at their initial parameters under changed risk critics.
C1_StaleRiskTargets ==
    /\ UpdateRan
    /\ target_qf1[Len(target_qf1)].from = qf1
    /\ n_train_steps_total >= 2
    /\ rf1 > 0 /\ target_rf1 = << >>
    /\ rf2 > 0 /\ target_rf2 = << >>
    /\ losses.rf1_loss.targets = << << >>, << >> >>

\* C2: every completed train_from_torch call runs the five network
\* optimizers in the order policy, qf1, qf2, rf1, rf2, each exactly once
\* and each as zero_grad, backward, step; so each network has been stepped
\* once per call.
C2_FixedOptimizerOrder ==
    oplog # << >> =>
        /\ SelectSeq(oplog, IsNetworkOp) =
              << [opt |-> "policy", op |-> "zero_grad", loss |-> "-"],
                 [opt |-> "policy", op |-> "backward", loss |-> "policy_loss"],
                 [opt |-> "policy", op |-> "step", loss |-> "-"],
                 [opt |-> "qf1", op |-> "zero_grad", loss |-> "-"],
                 [opt |-> "qf1", op |-> "backward", loss |-> "qf1_loss"],
                 [opt |-> "qf1", op |-> "step", loss |-> "-"],
                 [opt |-> "qf2", op |-> "zero_grad", loss |-> "-"],
                 [opt |-> "qf2", op |-> "backward", loss |-> "qf2_loss"],
                 [opt |-> "qf2", op |-> "step", loss |-> "-"],
                 [opt |-> "rf1", op |-> "zero_grad", loss |-> "-"],
                 [opt |-> "rf1", op |-> "backward", loss |-> "rf1_loss"],
                 [opt |-> "rf1", op |-> "step", loss |-> "-"],
                 [opt |-> "rf2", op |-> "zero_grad", loss |-> "-"],
                 [opt |-> "rf2", op |-> "backward", loss |-> "rf2_loss"],
                 [opt |-> "rf2", op |-> "step", loss |-> "-"] >>
        /\ policy = n_train_steps_total
        /\ qf1 = n_train_steps_total
        /\ qf2 = n_train_steps_total
        /\ rf1 = n_train_steps_total
        /\ rf2 = n_train_steps_total

C2_Witness ==
    /\ n_train_steps_total >= 2
    /\ Len(SelectSeq(oplog, IsNetworkOp)) = 15
    /\ Len(SelectSeq(oplog, IsAlphaOp)) = 3


\* A step of the behaviour that is a completed train_from_torch call.
TrainCall == n_train_steps_total' = n_train_steps_total + 1

\* C3: statistics come from one batch per epoch.  The first call after
\* construction or end_epoch() computes statistics of its batch and stores
\* them; every later call before the next end_epoch() gets the empty
\* statistics of a skipped computation and leaves eval_statistics as it
\* was; end_epoch() itself keeps them; get_diagnostics reports them.
C3_StatsOncePerEpoch ==
    /\ [](n_train_steps_total = 0 =>
             need_to_update_eval_statistics /\ eval_statistics = EmptyDict)
    /\ [][ /\ (TrainCall /\ need_to_update_eval_statistics) =>
                /\ DOMAIN stats' = StatKeys(use_automatic_entropy_tuning)
                /\ \A k \in DOMAIN stats' :
                      stats'[k] = [batch |-> batch',
                                   step |-> n_train_steps_total]
                /\ eval_statistics' = stats'
                /\ ~need_to_update_eval_statistics'
           /\ (TrainCall /\ ~need_to_update_eval_statistics) =>
                /\ stats' = EmptyDict
                /\ eval_statistics' = eval_statistics
                /\ eval_statistics' # EmptyDict
                /\ ~need_to_update_eval_statistics'
           /\ (~TrainCall) => eval_statistics' = eval_statistics
           /\ (need_to_update_eval_statistics'
                 /\ ~need_to_update_eval_statistics) => ~TrainCall
           /\ (diagnostics' # diagnostics) =>
                \A k \in DOMAIN eval_statistics :
                    diagnostics'[k] = eval_statistics[k]
         ]_vars

\* A later call of an epoch, on another batch than the epoch's first one,
\* has run and the statistics reported are still those of the first batch.
C3_Witness ==
    /\ ~need_to_update_eval_statistics
    /\ n_train_steps_total >= 3
    /\ stats = EmptyDict
    /\ eval_statistics # EmptyDict
    /\ eval_statistics["QF1 Loss"].batch # batch
    /\ eval_statistics["QF1 Loss"].step = 1
    /\ diagnostics # EmptyDict
    /\ diagnostics["QF1 Loss"] = eval_statistics["QF1 Loss"]

\* C4: the paths handed to plot_problem_paths are one per requested risk
\* bound: as many as risk_bounds and as times, the i-th one rolled out
\* with risk_bounds[i].
C4_PathPerRiskBound ==
    \A c \in DOMAIN plotted :
        /\ Len(plotted[c].paths) = Len(plotted[c].risk_bounds)
        /\ Len(plotted[c].paths) = Len(plotted[c].times)
        /\ \A i \in DOMAIN plotted[c].paths :
              /\ i \in DOMAIN plotted[c].risk_bounds
              /\ plotted[c].paths[i].risk_bound = plotted[c].risk_bounds[i]

\* plot_problem_paths was called with the default three risk bounds and
\* three times, and four paths that were all rolled out with 0.3.
C4_Witness ==
    /\ sim_pc = "done"
    /\ Len(plotted) = 1
    /\ plotted[1].risk_bounds = << 1, 2, 3 >>
    /\ Len(plotted[1].times) = 3
    /\ Len(plotted[1].paths) = 4
    /\ \A i \in 1..4 : plotted[1].paths[i].risk_bound = StartPathsRiskBound

\* Position in the log of the entry e.
IndexOf(log, e) == CHOOSE i \in DOMAIN log : log[i] = e

\* C5: the counter starts at 0 and grows by exactly 1 per completed call;
\* the target update runs in a call exactly when the incremented counter is
\* a multiple of target_update_period, so after N calls it has run
\* N \div target_update_period times, each time after all optimizer steps
\* of the call (the critics blended in are the ones stepped in that call),
\* and on every call when the period is 1.
C5_Inv ==
    /\ Len(target_qf1) = n_train_steps_total \div target_update_period
    /\ Len(target_qf2) = n_train_steps_total \div target_update_period
    /\ \A i \in DOMAIN target_qf1 :
          target_qf1[i].from = i * target_update_period
    /\ \A i \in DOMAIN target_qf2 :
          target_qf2[i].from = i * target_update_period
    /\ oplog # << >> =>
          /\ UpdateRan <=> (n_train_steps_total % target_update_period = 0)
          /\ Len(SelectSeq(oplog, IsStepOp)) >= 5
          /\ \A i \in DOMAIN oplog :
                (oplog[i].op = "step" \/ oplog[i].op = "soft_update") =>
                    /\ oplog[i].op = "step" =>
                          i < IndexOf(oplog, [opt |-> "counter",
                                              op |-> "increment",
                                              loss |-> "-"])
                    /\ oplog[i].op = "soft_update" =>
                          /\ i = Len(oplog)
                          /\ i > IndexOf(oplog, [opt |-> "counter",
                                                 op |-> "increment",
                                                 loss |-> "-"])
          /\ target_update_period = 1 => UpdateRan

C5_TargetUpdatePeriod ==
    /\ [](n_train_steps_total = 0 => oplog = << >>)
    /\ []C5_Inv
    /\ [][ /\ n_train_steps_total' = n_train_steps_total
                 \/ n_train_steps_total' = n_train_steps_total + 1
           /\ (losses' # losses \/ batch' # batch \/ oplog' # oplog
                 \/ policy' # policy) => TrainCall
         ]_vars

C5_Witness ==
    /\ target_update_period = 2
    /\ n_train_steps_total = 5
    /\ Len(target_qf1) = 2
    /\ ~UpdateRan
    /\ target_qf1[2].from = 4

\* C6: both settings of use_automatic_entropy_tuning give a working step.
\* Automatic: log_alpha and its optimizer exist, the alpha optimizer is
\* stepped once per call, before the policy optimizer, and
\* alpha = exp(log_alpha).  Not automatic: neither is created, alpha = 1
\* and alpha_loss = 0, no alpha update is attempted, and the call completes
\* the five other optimizer steps without error.
C6_EntropyTuningOptional ==
    /\ error = "none"
    /\ losses.called => oplog # << >>
    /\ use_automatic_entropy_tuning =>
          /\ {"log_alpha", "alpha_optimizer"} \subseteq attrs
          /\ log_alpha = n_train_steps_total
          /\ oplog # << >> =>
                /\ SubSeq(oplog, 1, 3) =
                      << [opt |-> "alpha", op |-> "zero_grad", loss |-> "-"],
                         [opt |-> "alpha", op |-> "backward",
                          loss |-> "alpha_loss"],
                         [opt |-> "alpha", op |-> "step", loss |-> "-"] >>
                /\ Len(SelectSeq(oplog, IsAlphaOp)) = 3
                /\ oplog[4].opt = "policy"
                /\ losses.policy_loss.alpha =
                      [kind |-> "exp", arg |-> log_alpha - 1]
                /\ losses.alpha_loss.kind = "tensor"
    /\ ~use_automatic_entropy_tuning =>
          /\ attrs \cap {"log_alpha", "alpha_optimizer"} = {}
          /\ log_alpha = 0
          /\ oplog # << >> =>
                /\ SelectSeq(oplog, IsAlphaOp) = << >>
                /\ Len(SelectSeq(oplog, IsStepOp)) = 5
                /\ {oplog[i].opt : i \in {j \in DOMAIN oplog : oplog[j].op = "step"}}
                      = {"policy", "qf1", "qf2", "rf1", "rf2"}
                /\ losses.policy_loss.alpha = [kind |-> "const", arg |-> 1]
                /\ losses.qf1_loss.alpha = [kind |-> "const", arg |-> 1]
                /\ losses.rf1_loss.alpha = [kind |-> "const", arg |-> 1]
                /\ losses.alpha_loss = [kind |-> "int", arg |-> 0]
                /\ "Alpha" \notin DOMAIN eval_statistics

\* Training without automatic entropy tuning has completed calls.
C6_Witness ==
    /\ ~use_automatic_entropy_tuning
    /\ n_train_steps_total >= 2
    /\ error = "none"
    /\ Len(SelectSeq(oplog, IsStepOp)) = 5
    /\ eval_statistics # EmptyDict

====
